---- MODULE Spec2Model ----
(***************************************************************************)
(* Model of the ESP8266 UDP aggregator (Relay) sketch                      *)
(* UDP_Aggregator_GEN.ino: one session from boot to deep sleep.            *)
(*                                                                         *)
(* setup() is split at its only blocking point, the connection wait of    *)
(* createLink(); loop() is one action per iteration.  Addresses are        *)
(* 4-tuples of octets, buffers are sequences of bytes 0..255.              *)
(*                                                                         *)
(* The client (Leaf) sketch UDP_Client_GEN.ino and the base station (Root) *)
(* sketch are modelled the same way, each as one record, and joined to the *)
(* Relay by a network of datagrams in flight in the specification SpecTree.*)
(***************************************************************************)
EXTENDS Integers, Sequences, FiniteSets, Bags, TLC

VARIABLES
    pc,               \* "setup" | "connecting" | "loop" | "sleeping"
    scan,             \* networks returned by WiFi.scanNetworks(), read by setup()
    connectToBS,      \* flag: base station found
    moteSearched,     \* the MOTE2BS search of setup() was run
    network_idx,      \* argument of createLink (0-based scan index), -1 outside createLink
    createLinkCalls,  \* number of calls of createLink()
    ap_ssid,          \* SSID of the own access point
    WiFi_ssid,        \* SSID given to WiFi.begin(), "" = begin never called
    WiFi_disconnects, \* number of calls of WiFi.disconnect()
    WiFi_status,      \* "idle" | "connected"  (WL_CONNECTED or not)
    WiFi_localIP,     \* WiFi.localIP(): address assigned on the uplink
    WiFi_gatewayIP,   \* WiFi.gatewayIP()
    WiFi_softAPIP,    \* WiFi.softAPIP(): address of the own access point
    retries,          \* delays spent in the connection wait of createLink()
    sup_gateway_IP, own_IP, sub_gateway_IP,
    sub_broadcast_IP, sub_network_IP, sup_network_IP,
    udpListening,     \* UDP.begin(UDP_PORT) has been called
    rxBuffer, rxSize, rxMsg, txBuffer,
    remote_PORT, sendernet_IP, dstnet_IP,
    previousMillis, msg_sent_cnt,
    millis,           \* the monotonic clock, in ms
    udpIn,            \* the datagram UDP.parsePacket() returned in the last iteration
    branch,           \* branch of the forwarding if-chain taken in the last iteration
    out,              \* what the last loop iteration did, in order
    leaf,             \* the Leaf: globals and statics of UDP_Client_GEN.ino
    root,             \* the Root: globals and statics of the base station sketch
    net,              \* datagrams in flight (a bag)
    tally,            \* history: datagrams of the Leaf's reports passed on, per hop
    pair              \* Link Formation of two Relays side by side

treeVars == <<leaf, root, net, tally, pair>>

vars == <<leaf, root, net, tally, pair, pc, scan, connectToBS, moteSearched, network_idx, createLinkCalls, ap_ssid,
          WiFi_ssid, WiFi_disconnects, WiFi_status, WiFi_localIP,
          WiFi_gatewayIP, WiFi_softAPIP, retries,
          sup_gateway_IP, own_IP, sub_gateway_IP,
          sub_broadcast_IP, sub_network_IP, sup_network_IP, udpListening,
          rxBuffer, rxSize, rxMsg, txBuffer,
          remote_PORT, sendernet_IP, dstnet_IP,
          previousMillis, msg_sent_cnt, millis, udpIn, branch, out>>

----------------------------------------------------------------------------
(* Program constants *)

BS_SSID == "BS_ESP8266"
MOTE2BS_SSID == "MOTE2BS_ESP8266"
MOTE_SSID == "MOTE_ESP8266"
IP_len == 4
UDP_PACKET_SIZE == 9
MSG_SENT_MAX == 5
UDP_PORT == 4210
tx_period == 9000
subnetmask_IP == <<255, 255, 255, 0>>
TELEMETRY_MARK == 65
RSSI_FLOOR == -1000

(* Constants of the Leaf (UDP_Client_GEN.ino) and of the Root *)

WIFI_CONN_ATTEMPTS == 20
leaf_tx_period == 50
leaf_MSG_SENT_MAX == 5
LEAF_MARK == 110
ROOT_MARK == 66
ROOT_IP == <<192, 168, 4, 1>>

(* Bounds of the model *)

MaxNets == 3        \* networks in one scan result
MaxPktLen == 10     \* longest inbound datagram (one more than the buffer)
MaxTicks == 10      \* the clock stops advancing after MaxTicks half periods
MaxRetries == 2     \* connection-wait delays that are counted
MaxLeafTicks == 5   \* the Leaf's clock stops advancing after MaxLeafTicks periods
MaxInFlight == 2    \* datagrams in flight at one time
MaxTreeTicks == 1   \* in the tree the Relay's clock stops after MaxTreeTicks periods

----------------------------------------------------------------------------
(* Values *)

Byte(x) == x % 256            \* a value stored in a char / uint8_t

ZeroIP == <<0, 0, 0, 0>>      \* a default-constructed IPAddress
ZeroBuf == [i \in 1..UDP_PACKET_SIZE |-> 0]

\* IPAddress with octet i (0-based, as in the source) replaced by v.
SetOctet(ip, i, v) == [ip EXCEPT ![i + 1] = Byte(v)]

\* One octet ANDed with one octet of the netmask (mask octets are 255 or 0).
AndOctet(o, m) == IF m = 255 THEN o ELSE IF m = 0 THEN 0 ELSE o

\* IPAddress masked with the netmask, octet by octet.
maskIP(ip) == [i \in 1..IP_len |-> AndOctet(ip[i], subnetmask_IP[i])]

\* Network address as the loop computes it: a copy with the host octet zeroed.
netOf(ip) == SetOctet(ip, IP_len - 1, 0)

----------------------------------------------------------------------------
(* Environment: what the radio can report *)

Ssids == {BS_SSID, MOTE2BS_SSID, "HOME_WIFI"}
Rssis == {-128, -70, -40}                  \* dBm, as WiFi.RSSI() reports them
Nets == [ssid : Ssids, rssi : Rssis]
Scans == UNION {[1..n -> Nets] : n \in 0..MaxNets}

\* Uplinks the station interface can join: the address the DHCP server of the
\* uplink hands out, and that network's gateway.  The base station's access
\* point is 192.168.4.1; another aggregator's is the address it derived.
Uplinks(ssid) ==
    IF ssid = BS_SSID
    THEN { [local |-> <<192, 168, 4, 2>>,   gateway |-> <<192, 168, 4, 1>>] }
    ELSE { [local |-> <<192, 168, 3, 2>>,   gateway |-> <<192, 168, 3, 1>>],
           [local |-> <<192, 168, 255, 3>>, gateway |-> <<192, 168, 255, 1>>] }

----------------------------------------------------------------------------
(* Discovery: setup(), lines 115-159 *)

\* Mutant: only the first network scanned is compared with BS_SSID.
findBS_firstOnly(s, i) == i >= 0 /\ s[i + 1].ssid = BS_SSID

\* for (i = n - 1; i >= 0; i--) if (WiFi.SSID(i) == BS_SSID) ... break;
RECURSIVE findBS(_, _)
findBS(s, i) ==
    IF i < 0 THEN FALSE
    ELSE IF s[i + 1].ssid = BS_SSID THEN TRUE
    ELSE findBS(s, i - 1)

\* Mutant: an equally strong candidate replaces the current one.
stronger_orEqual(rssi, max_rssi) == rssi >= max_rssi

\* The comparison that lets a candidate replace the current strongest one.
stronger(rssi, max_rssi) == rssi > max_rssi

\* for (i = n - 1; i >= 0; i--) if (SSID(i) == MOTE2BS_SSID) if (RSSI(i) > max_rssi) ...
RECURSIVE strongestMote(_, _, _, _)
strongestMote(s, i, max_rssi, max_rssi_idx) ==
    IF i < 0 THEN max_rssi_idx
    ELSE IF s[i + 1].ssid = MOTE2BS_SSID /\ stronger(s[i + 1].rssi, max_rssi)
         THEN strongestMote(s, i - 1, s[i + 1].rssi, i)
         ELSE strongestMote(s, i - 1, max_rssi, max_rssi_idx)

\* Mutant: with nothing found the node connects to the base station anyway.
Discovery_noSleep(s) ==
    IF findBS(s, Len(s) - 1) \/ strongestMote(s, Len(s) - 1, RSSI_FLOOR, -1) < 0
    THEN [link |-> TRUE, connectToBS |-> TRUE, idx |-> 0, searched |-> FALSE]
    ELSE [link |-> TRUE, connectToBS |-> FALSE,
          idx |-> strongestMote(s, Len(s) - 1, RSSI_FLOOR, -1), searched |-> TRUE]

\* The decision of setup(): whether createLink is called, with which arguments,
\* and whether the MOTE2BS search (the if (!connectToBS) block) was run.
Discovery(s) ==
    IF findBS(s, Len(s) - 1)
    THEN [link |-> TRUE, connectToBS |-> TRUE, idx |-> 0, searched |-> FALSE]
    ELSE LET m == strongestMote(s, Len(s) - 1, RSSI_FLOOR, -1)
         IN  [link |-> m >= 0, connectToBS |-> FALSE, idx |-> m, searched |-> TRUE]

\* The SSID createLink() passes to WiFi.begin().
beginSSID(s, toBS, idx) == IF toBS THEN BS_SSID ELSE s[idx + 1].ssid

----------------------------------------------------------------------------
(* Link formation: createLink(), lines 351-362 *)

\* Mutant: the third octet saturates at 255 instead of wrapping.
deriveOwnIP_saturating(local) ==
    <<local[1], local[2],
      IF local[3] + local[4] > 255 THEN 255 ELSE local[3] + local[4], 1>>

\* Mutant: the host octet is not added to the third octet.
deriveOwnIP_notFolded(local) == SetOctet(local, 3, 1)

\* Mutant: the host octet of the uplink address is kept.
deriveOwnIP_hostKept(local) == SetOctet(local, 2, local[3] + local[4])

\* own_IP = localIP; own_IP[2] += localIP[3]; own_IP[3] = 1;
deriveOwnIP(local) ==
    SetOctet(SetOctet(local, 2, local[3] + local[4]), 3, 1)

\* Mutant: the host octet of the broadcast address is never set.
broadcastOf_unset(apIP) == apIP

\* sub_broadcast_IP = WiFi.softAPIP(); sub_broadcast_IP[IP_len - 1] = 255;
broadcastOf(apIP) == SetOctet(apIP, IP_len - 1, 255)

\* Two Relays before createLink(): neither has an uplink address yet.
PairBoot ==
    [k \in 1..2 |-> [status |-> "idle", localIP |-> ZeroIP, own_IP |-> ZeroIP,
                     sub_network_IP |-> ZeroIP, sub_broadcast_IP |-> ZeroIP]]

\* Uplink addresses a Relay can be handed, on the same and on other networks.
LocalPool ==
    { <<192, 168, 4, 2>>, <<192, 168, 5, 1>>, <<192, 168, 3, 2>>, <<192, 168, 255, 7>>,
      <<192, 168, 4, 100>>, <<10, 0, 4, 2>>, <<192, 168, 5, 255>> }

----------------------------------------------------------------------------
(* Packet codec: parseMsg(), fillBuffer() *)

\* Bytes UDP.read(rxBuffer, UDP_PACKET_SIZE) copies out of a datagram.
readSize(data) == IF Len(data) < UDP_PACKET_SIZE THEN Len(data) ELSE UDP_PACKET_SIZE

\* rxBuffer after UDP.read(): the bytes read, then what the buffer held before.
UDPread(buf, data) ==
    [i \in 1..UDP_PACKET_SIZE |-> IF i <= readSize(data) THEN Byte(data[i]) ELSE buf[i]]

\* rxMsg after parseMsg(rxBuffer): always reads the whole buffer.
parseMsg(buf) ==
    [dstIP   |-> [i \in 1..IP_len |-> Byte(buf[i])],
     srcIP   |-> [i \in 1..IP_len |-> Byte(buf[i + IP_len])],
     payload |-> [i \in 1..(UDP_PACKET_SIZE - 2 * IP_len) |-> buf[i + 2 * IP_len]]]

\* Mutant: the embedded source is the access-point address.
telemetrySource_own(localIP, ownIP) == ownIP

\* The address fillBuffer() writes as the embedded source: WiFi.localIP().
telemetrySource(localIP, ownIP) == localIP

\* txBuffer after fillBuffer(txBuffer).
fillBuffer(buf, gateway, localIP, ownIP) ==
    [i \in 1..UDP_PACKET_SIZE |->
        IF i <= IP_len THEN Byte(gateway[i])
        ELSE IF i <= 2 * IP_len THEN Byte(telemetrySource(localIP, ownIP)[i - IP_len])
        ELSE IF i = 2 * IP_len + 1 THEN TELEMETRY_MARK
        ELSE buf[i]]

----------------------------------------------------------------------------
(* Forwarding engine: loop(), lines 202-251 *)

\* Mutant: the second test compares with the access-point address.
selfAddress_own(localIP, ownIP) == ownIP

\* The address the loop compares the embedded destination with in its second
\* test: WiFi.localIP(), the station-side address.
selfAddress(localIP, ownIP) == localIP

\* Mutant: the test for the node's own address comes first.
classify_selfFirst(sendernet, dstIP, dstnet, subnet, localIP, ownIP) ==
    IF dstIP = localIP THEN "b"
    ELSE IF sendernet = subnet THEN "a"
    ELSE IF dstnet = subnet THEN "c"
    ELSE "d"

\* The if / else-if chain of lines 219-249.
classify(sendernet, dstIP, dstnet, subnet, localIP, ownIP) ==
    IF sendernet = subnet THEN "a"
    ELSE IF dstIP = selfAddress(localIP, ownIP) THEN "b"
    ELSE IF dstnet = subnet THEN "c"
    ELSE "d"

\* Entries of the log of one loop iteration; by = "rx" for the receive part,
\* "tx" for the telemetry transmitter, "nap" for the sleep check.
Send(by, to, port, bytes) ==
    [ev |-> "send", by |-> by, to |-> to, port |-> port, bytes |-> bytes]
Deliver == [ev |-> "actionUponRx", by |-> "rx", to |-> ZeroIP, port |-> 0, bytes |-> <<>>]
Sleep == [ev |-> "deepSleep", by |-> "nap", to |-> ZeroIP, port |-> 0, bytes |-> <<>>]

\* UDP.write(rxBuffer, rxSize)
written(buf, size) == SubSeq(buf, 1, size)

\* Mutant: the upstream copy goes to the well-known port.
forwardUp_wellKnownPort(gateway, port, buf, size) ==
    <<Send("rx", gateway, UDP_PORT, written(buf, size))>>

\* UDP.beginPacket(sup_gateway_IP, remote_PORT); UDP.write(rxBuffer, rxSize);
forwardUp(gateway, port, buf, size) == <<Send("rx", gateway, port, written(buf, size))>>

\* actionUponRx();
deliverLocal(port, buf, size) == <<Deliver>>

\* Mutant: the whole buffer is written, not the bytes read.
forwardDown_wholeBuffer(dstIP, port, buf, size) ==
    <<Send("rx", dstIP, port, written(buf, UDP_PACKET_SIZE))>>

\* UDP.beginPacket(rxMsg.dstIP, remote_PORT); UDP.write(rxBuffer, rxSize);
forwardDown(dstIP, port, buf, size) == <<Send("rx", dstIP, port, written(buf, size))>>

\* UDP.beginPacket(sub_broadcast_IP, remote_PORT); UDP.write(rxBuffer, rxSize);
broadcastDown(broadcast, port, buf, size) ==
    <<Send("rx", broadcast, port, written(buf, size))>>

\* Mutant: a packet with an unknown destination goes back upstream.
forward_fallbackUp(br, dstIP, port, buf, size, gateway, broadcast) ==
    CASE br = "a" -> forwardUp(gateway, port, buf, size)
      [] br = "b" -> deliverLocal(port, buf, size)
      [] br = "c" -> forwardDown(dstIP, port, buf, size)
      [] OTHER    -> forwardUp(gateway, port, buf, size)

\* What the branch taken does.
forward(br, dstIP, port, buf, size, gateway, broadcast) ==
    CASE br = "a" -> forwardUp(gateway, port, buf, size)
      [] br = "b" -> deliverLocal(port, buf, size)
      [] br = "c" -> forwardDown(dstIP, port, buf, size)
      [] OTHER    -> broadcastDown(broadcast, port, buf, size)

----------------------------------------------------------------------------
(* Telemetry transmitter and clock: loop(), lines 253-283 *)

\* Mutant: a period that has just elapsed is not yet due.
telemetryDue_strict(currentMillis, previous) ==
    IF currentMillis >= previous
    THEN currentMillis - previous > tx_period
    ELSE TRUE

\* if (currentMillis - previousMillis >= tx_period), in unsigned long arithmetic:
\* a negative difference wraps to 2^32 minus its size, far above tx_period for
\* every clock value of a session.
telemetryDue(currentMillis, previous) ==
    IF currentMillis >= previous
    THEN currentMillis - previous >= tx_period
    ELSE TRUE

\* Mutant: the nap starts one message late.
sleepDue_late(cnt) == cnt = MSG_SENT_MAX + 1

\* Mutant: the nap starts one message early.
sleepDue_early(cnt) == cnt = MSG_SENT_MAX - 1

\* if (msg_sent_cnt == MSG_SENT_MAX)
sleepDue(cnt) == cnt = MSG_SENT_MAX

\* Mutant: a forwarded packet counts as a message sent.
sentCount_withForwards(cnt, due, rxOut) ==
    cnt + (IF due THEN 1 ELSE 0)
        + (IF \E i \in 1..Len(rxOut) : rxOut[i].ev = "send" THEN 1 ELSE 0)

\* msg_sent_cnt after the telemetry check: msg_sent_cnt++ in the firing branch
\* only; rxOut is what the receive part of the iteration did.
sentCount(cnt, due, rxOut) == IF due THEN cnt + 1 ELSE cnt

\* Mutant: the telemetry check runs before the inbound packet is processed.
iterationLog_telemetryFirst(rxOut, txOut, napOut) == txOut \o rxOut \o napOut

\* The order of the three parts of one iteration of loop().
iterationLog(rxOut, txOut, napOut) == rxOut \o txOut \o napOut

\* Time between two loop iterations, ms: none, half a period, two periods (a
\* whole period is two iterations half a period apart).
ClockSteps == {0, 4500, 18000}
MaxClock == MaxTicks * 4500

----------------------------------------------------------------------------
(* Inbound traffic offered to the node *)

\* Peers (address, source port): an attached child, the uplink gateway, a host
\* of an unrelated network.
Peers ==
    { <<SetOctet(own_IP, 3, 7), 5000>>, <<sup_gateway_IP, UDP_PORT>>,
      <<<<10, 0, 0, 2>>, 6000>> }
Payload == [i \in 1..(MaxPktLen - 2 * IP_len) |-> 48 + i]
PktLens == {3, UDP_PACKET_SIZE, MaxPktLen}
Datagram(dst, src, n) == SubSeq(dst \o src \o Payload, 1, n)

NoPacket == [present |-> FALSE, from |-> ZeroIP, port |-> 0, data |-> <<>>]

\* Embedded destinations: the node's two addresses, a child, an unknown network.
Dsts == {WiFi_localIP, own_IP, SetOctet(own_IP, 3, 9), <<172, 16, 0, 4>>}
Srcs == {<<10, 0, 0, 9>>}

Inbound ==
    {NoPacket} \cup
    { [present |-> TRUE, from |-> s[1], port |-> s[2], data |-> Datagram(d, e, n)] :
        s \in Peers, d \in Dsts, e \in Srcs, n \in PktLens }

----------------------------------------------------------------------------
(* The Leaf: UDP_Client_GEN.ino *)

\* The Leaf when setup() reaches its connection wait: WiFi.begin() called,
\* num_of_tries = 0.  waits counts the calls of delay() in that wait.
LeafBoot ==
    [pc |-> "connecting", num_of_tries |-> 0, waits |-> 0,
     status |-> "idle", localIP |-> ZeroIP, WiFi_gatewayIP |-> ZeroIP,
     udpListening |-> FALSE, gateway_IP |-> ZeroIP,
     rxBuffer |-> ZeroBuf, rxSize |-> 0, remote_IP |-> ZeroIP, remote_PORT |-> 0,
     txBuffer |-> ZeroBuf, previousMillis |-> 0, millis |-> 0, msg_sent_cnt |-> 0,
     udpIn |-> NoPacket, out |-> <<>>]

\* One pass of the body of while (WiFi.status() != WL_CONNECTED):
\* if (num_of_tries++ <= WIFI_CONN_ATTEMPTS) delay(...); else ESP.deepSleep(...);
leafRetry(l) ==
    IF l.num_of_tries <= WIFI_CONN_ATTEMPTS
    THEN [l EXCEPT !.num_of_tries = Byte(@ + 1), !.waits = @ + 1]
    ELSE [l EXCEPT !.num_of_tries = Byte(@ + 1), !.pc = "sleeping", !.out = <<Sleep>>]

\* The rest of setup() once connected: UDP.begin(UDP_PORT); gateway_IP = WiFi.gatewayIP();
leafSetupFinish(l) ==
    [l EXCEPT !.udpListening = TRUE, !.gateway_IP = l.WiFi_gatewayIP, !.pc = "loop"]

\* txBuffer after the Leaf's fillBuffer(txBuffer).
leafFillBuffer(buf, gateway, localIP) ==
    [i \in 1..UDP_PACKET_SIZE |->
        IF i <= IP_len THEN Byte(gateway[i])
        ELSE IF i <= 2 * IP_len THEN Byte(localIP[i - IP_len])
        ELSE IF i = 2 * IP_len + 1 THEN LEAF_MARK
        ELSE buf[i]]

\* if (currentMillis - previousMillis >= tx_period)
leafTelemetryDue(currentMillis, previous) ==
    IF currentMillis >= previous
    THEN currentMillis - previous >= leaf_tx_period
    ELSE TRUE

LeafClockSteps == {0, 50}
MaxLeafClock == MaxLeafTicks * 50

\* One iteration of the Leaf's loop() that finds datagram p (or none) dt ms
\* after the previous one.
leafIteration(l, p, dt) ==
    LET cur == l.millis + dt
        due == leafTelemetryDue(cur, l.previousMillis)
        cnt == IF due THEN l.msg_sent_cnt + 1 ELSE l.msg_sent_cnt
        tx  == IF due THEN leafFillBuffer(l.txBuffer, l.gateway_IP, l.localIP)
                      ELSE l.txBuffer
        nap == cnt = leaf_MSG_SENT_MAX
    IN  [l EXCEPT
           !.udpIn = p,
           !.rxBuffer = IF p.present THEN UDPread(@, p.data) ELSE @,
           !.rxSize = IF p.present THEN readSize(p.data) ELSE @,
           !.remote_IP = IF p.present THEN p.from ELSE @,
           !.remote_PORT = IF p.present THEN p.port ELSE @,
           !.millis = cur,
           !.previousMillis = IF due THEN cur ELSE @,
           !.msg_sent_cnt = cnt,
           !.txBuffer = tx,
           !.out = (IF due
                    THEN <<Send("tx", l.gateway_IP, UDP_PORT, written(tx, UDP_PACKET_SIZE))>>
                    ELSE <<>>) \o (IF nap THEN <<Sleep>> ELSE <<>>),
           !.pc = IF nap THEN "sleeping" ELSE "loop"]

----------------------------------------------------------------------------
(* The Root: the base station sketch *)

\* The Root after setup(): access point 192.168.4.1 up, UDP port open.
RootBoot ==
    [softAPIP |-> ROOT_IP, rxBuffer |-> ZeroBuf, rxSize |-> 0,
     remote_IP |-> ZeroIP, remote_PORT |-> 0, sender_known |-> 0,
     txBuffer |-> ZeroBuf, udpIn |-> NoPacket, out |-> <<>>]

\* Mutant: the reply is addressed to the node the datagram came from.
rootFillBuffer_toSender(buf, rx, softAPIP, remoteIP) ==
    [i \in 1..UDP_PACKET_SIZE |->
        IF i <= IP_len THEN Byte(remoteIP[i])
        ELSE IF i <= 2 * IP_len THEN Byte(softAPIP[i - IP_len])
        ELSE IF i = 2 * IP_len + 1 THEN ROOT_MARK
        ELSE buf[i]]

\* txBuffer after the Root's fillBuffer(txBuffer): the embedded source of the
\* datagram received becomes the embedded destination.
rootFillBuffer(buf, rx, softAPIP, remoteIP) ==
    [i \in 1..UDP_PACKET_SIZE |->
        IF i <= IP_len THEN Byte(rx[i + IP_len])
        ELSE IF i <= 2 * IP_len THEN Byte(softAPIP[i - IP_len])
        ELSE IF i = 2 * IP_len + 1 THEN ROOT_MARK
        ELSE buf[i]]

\* One iteration of the Root's loop() that finds datagram p.  An iteration
\* that finds none changes nothing.
rootIteration(r, p) ==
    LET rx == UDPread(r.rxBuffer, p.data)
        tx == rootFillBuffer(r.txBuffer, rx, r.softAPIP, p.from)
    IN  [r EXCEPT
           !.udpIn = p,
           !.rxBuffer = rx,
           !.rxSize = readSize(p.data),
           !.remote_IP = p.from,
           !.remote_PORT = p.port,
           !.sender_known = 1,
           !.txBuffer = tx,
           !.out = <<Send("tx", p.from, p.port, written(tx, UDP_PACKET_SIZE))>>]

----------------------------------------------------------------------------
(* State machine *)

\* A node that is not part of the session modelled: not powered.
Absent == [pc |-> "off"]

Init ==
    /\ pc = "setup"
    /\ scan = <<>>
    /\ connectToBS = FALSE
    /\ moteSearched = FALSE
    /\ network_idx = -1
    /\ createLinkCalls = 0
    /\ ap_ssid = MOTE_SSID
    /\ WiFi_ssid = ""
    /\ WiFi_disconnects = 0
    /\ WiFi_status = "idle"
    /\ WiFi_localIP = ZeroIP
    /\ WiFi_gatewayIP = ZeroIP
    /\ WiFi_softAPIP = ZeroIP
    /\ retries = 0
    /\ sup_gateway_IP = ZeroIP
    /\ own_IP = ZeroIP
    /\ sub_gateway_IP = ZeroIP
    /\ sub_broadcast_IP = ZeroIP
    /\ sub_network_IP = ZeroIP
    /\ sup_network_IP = ZeroIP
    /\ udpListening = FALSE
    /\ rxBuffer = ZeroBuf
    /\ rxSize = 0
    /\ rxMsg = parseMsg(ZeroBuf)
    /\ txBuffer = ZeroBuf
    /\ remote_PORT = 0
    /\ sendernet_IP = ZeroIP
    /\ dstnet_IP = ZeroIP
    /\ previousMillis = 0
    /\ msg_sent_cnt = 0
    /\ millis = 0
    /\ udpIn = NoPacket
    /\ branch = "none"
    /\ out = <<>>
    /\ leaf = Absent
    /\ root = Absent
    /\ net = EmptyBag
    /\ tally = [up |-> 0, replies |-> 0, down |-> 0]
    /\ pair = PairBoot

relayVars == <<pc, scan, connectToBS, moteSearched, network_idx, createLinkCalls, ap_ssid,
               WiFi_ssid, WiFi_disconnects, WiFi_status, WiFi_localIP,
               WiFi_gatewayIP, WiFi_softAPIP, retries,
               sup_gateway_IP, own_IP, sub_gateway_IP,
               sub_broadcast_IP, sub_network_IP, sup_network_IP, udpListening,
               rxBuffer, rxSize, rxMsg, txBuffer,
               remote_PORT, sendernet_IP, dstnet_IP,
               previousMillis, msg_sent_cnt, millis, udpIn, branch, out>>
loopVars == <<rxBuffer, rxSize, rxMsg, txBuffer, remote_PORT, sendernet_IP,
              dstnet_IP, previousMillis, msg_sent_cnt, millis, udpIn, branch, out>>
identityVars == <<sup_gateway_IP, own_IP, sub_gateway_IP, sub_broadcast_IP,
                  sub_network_IP, sup_network_IP, WiFi_softAPIP, udpListening>>

\* setup() up to the connection wait: scan, discovery, and either the start of
\* createLink() (disconnect, begin) or the deep-sleep request.
setup_discovery ==
    /\ UNCHANGED treeVars
    /\ pc = "setup"
    /\ \E s \in Scans :
         LET d == Discovery(s) IN
         /\ scan' = s
         /\ connectToBS' = d.connectToBS
         /\ moteSearched' = d.searched
         /\ IF d.link
            THEN /\ network_idx' = d.idx
                 /\ createLinkCalls' = createLinkCalls + 1
                 /\ ap_ssid' = MOTE2BS_SSID
                 /\ WiFi_disconnects' = WiFi_disconnects + 1
                 /\ WiFi_ssid' = beginSSID(s, d.connectToBS, d.idx)
                 /\ pc' = "connecting"
                 /\ out' = out
            ELSE /\ pc' = "sleeping"
                 /\ out' = <<Sleep>>
                 /\ UNCHANGED <<network_idx, createLinkCalls, ap_ssid,
                                WiFi_disconnects, WiFi_ssid>>
    /\ UNCHANGED <<WiFi_status, WiFi_localIP, WiFi_gatewayIP, retries>>
    /\ UNCHANGED identityVars
    /\ UNCHANGED <<rxBuffer, rxSize, rxMsg, txBuffer, remote_PORT, sendernet_IP,
                   dstnet_IP, previousMillis, msg_sent_cnt, millis, udpIn, branch>>

\* The radio joins the network WiFi.begin() named and gets its addresses.
WiFi_connects ==
    /\ UNCHANGED treeVars
    /\ pc = "connecting"
    /\ WiFi_status # "connected"
    /\ \E u \in Uplinks(WiFi_ssid) :
         /\ WiFi_localIP' = u.local
         /\ WiFi_gatewayIP' = u.gateway
    /\ WiFi_status' = "connected"
    /\ UNCHANGED <<pc, scan, connectToBS, moteSearched, network_idx, createLinkCalls,
                   ap_ssid, WiFi_ssid, WiFi_disconnects, retries>>
    /\ UNCHANGED identityVars
    /\ UNCHANGED loopVars

\* Mutant: the wait gives up and asks for deep sleep after MaxRetries delays.
createLink_wait_bounded ==
    /\ UNCHANGED treeVars
    /\ pc = "connecting"
    /\ WiFi_status # "connected"
    /\ IF retries < MaxRetries
       THEN retries' = retries + 1 /\ pc' = pc /\ out' = out
       ELSE retries' = retries /\ pc' = "sleeping" /\ out' = <<Sleep>>
    /\ UNCHANGED <<scan, connectToBS, moteSearched, network_idx, createLinkCalls,
                   ap_ssid, WiFi_ssid, WiFi_disconnects, WiFi_status, WiFi_localIP,
                   WiFi_gatewayIP>>
    /\ UNCHANGED identityVars
    /\ UNCHANGED <<rxBuffer, rxSize, rxMsg, txBuffer, remote_PORT, sendernet_IP,
                   dstnet_IP, previousMillis, msg_sent_cnt, millis, udpIn, branch>>

\* while (WiFi.status() != WL_CONNECTED) delay(WIFI_CONN_DELAY_MS);
createLink_wait ==
    /\ UNCHANGED treeVars
    /\ pc = "connecting"
    /\ WiFi_status # "connected"
    /\ retries' = IF retries < MaxRetries THEN retries + 1 ELSE retries
    /\ UNCHANGED <<pc, scan, connectToBS, moteSearched, network_idx, createLinkCalls,
                   ap_ssid, WiFi_ssid, WiFi_disconnects, WiFi_status, WiFi_localIP,
                   WiFi_gatewayIP>>
    /\ UNCHANGED identityVars
    /\ UNCHANGED loopVars

\* The rest of createLink() once connected (lines 351-362) and the rest of
\* setup() (lines 163-182): identity, own access point, UDP port, networks.
setup_finish ==
    /\ UNCHANGED treeVars
    /\ pc = "connecting"
    /\ WiFi_status = "connected"
    /\ LET own == deriveOwnIP(WiFi_localIP) IN
         /\ sup_gateway_IP' = WiFi_gatewayIP
         /\ own_IP' = own
         /\ sub_gateway_IP' = own
         /\ WiFi_softAPIP' = own              \* softAPConfig(own_IP, sub_gateway_IP, mask)
         /\ sub_broadcast_IP' = broadcastOf(own)
         /\ sub_network_IP' = maskIP(own)
         /\ sup_network_IP' = maskIP(WiFi_localIP)
    /\ udpListening' = TRUE
    /\ network_idx' = -1                      \* createLink() has returned
    /\ retries' = 0
    /\ scan' = <<>>                           \* the scan is not read after setup()
    /\ pc' = "loop"
    /\ UNCHANGED <<connectToBS, moteSearched, createLinkCalls, ap_ssid, WiFi_ssid,
                   WiFi_disconnects, WiFi_status, WiFi_localIP, WiFi_gatewayIP>>
    /\ UNCHANGED loopVars

\* The receive part of one loop iteration (lines 202-251) for datagram p:
\* the new values of what it assigns, the branch taken and what it did.
receive(p) ==
    LET buf  == UDPread(rxBuffer, p.data)
        size == readSize(p.data)
        msg  == parseMsg(buf)
        snet == netOf(p.from)
        dnet == netOf(msg.dstIP)
        br   == classify(snet, msg.dstIP, dnet, sub_network_IP, WiFi_localIP, own_IP)
    IN  [rxBuffer |-> buf, rxSize |-> size, rxMsg |-> msg, remote_PORT |-> p.port,
         sendernet_IP |-> snet, dstnet_IP |-> dnet, branch |-> br,
         out |-> forward(br, msg.dstIP, p.port, buf, size, sup_gateway_IP,
                         sub_broadcast_IP)]

\* Nothing to receive: UDP.parsePacket() returned 0.
idle ==
    [rxBuffer |-> rxBuffer, rxSize |-> rxSize, rxMsg |-> rxMsg,
     remote_PORT |-> remote_PORT, sendernet_IP |-> sendernet_IP,
     dstnet_IP |-> dstnet_IP, branch |-> "none", out |-> <<>>]

\* The packet the telemetry transmitter sends (lines 266-271).
telemetry(buf, gateway) == <<Send("tx", gateway, UDP_PORT, written(buf, UDP_PACKET_SIZE))>>

\* One iteration of loop() that finds datagram p (or none) dt ms after the
\* previous one: inbound packet, telemetry check, sleep check.
\* The two millis() reads of a firing iteration fall in the same millisecond.
iteration(p, dt) ==
    /\ pc = "loop"
    /\ udpIn' = p
    /\ millis' = millis + dt
    /\ \E rx \in {IF p.present THEN receive(p) ELSE idle} :
       \E cur \in {millis + dt} :                       \* currentMillis
       \E due \in {telemetryDue(cur, previousMillis)} :
       \E cnt \in {sentCount(msg_sent_cnt, due, rx.out)} :
       \E tx \in {IF due
                  THEN fillBuffer(txBuffer, sup_gateway_IP, WiFi_localIP, own_IP)
                  ELSE txBuffer} :
       \E nap \in {sleepDue(cnt)} :
             /\ rxBuffer' = rx.rxBuffer
             /\ rxSize' = rx.rxSize
             /\ rxMsg' = rx.rxMsg
             /\ remote_PORT' = rx.remote_PORT
             /\ sendernet_IP' = rx.sendernet_IP
             /\ dstnet_IP' = rx.dstnet_IP
             /\ branch' = rx.branch
             /\ previousMillis' = IF due THEN cur ELSE previousMillis
             /\ msg_sent_cnt' = cnt
             /\ txBuffer' = tx
             /\ out' = iterationLog(rx.out,
                                     IF due THEN telemetry(tx, sup_gateway_IP) ELSE <<>>,
                                     IF nap THEN <<Sleep>> ELSE <<>>)
             /\ pc' = IF nap THEN "sleeping" ELSE "loop"
    /\ UNCHANGED <<scan, connectToBS, moteSearched, network_idx, createLinkCalls,
                   ap_ssid, WiFi_ssid, WiFi_disconnects, WiFi_status, WiFi_localIP,
                   WiFi_gatewayIP, retries>>
    /\ UNCHANGED identityVars

\* loop() with the datagrams and the clock of an open environment; the clock
\* of the model stops at MaxClock.
loop ==
    /\ pc = "loop"
    /\ UNCHANGED treeVars
    /\ \E p \in Inbound, dt \in ClockSteps :
         /\ millis + dt <= MaxClock
         /\ iteration(p, dt)

Next ==
    \/ setup_discovery
    \/ WiFi_connects
    \/ createLink_wait
    \/ setup_finish
    \/ loop

Spec == Init /\ [][Next]_vars

\* loop() scheduled after the clock has moved on since the previous iteration,
\* and scheduled again within the same millisecond.  The session's clock is
\* not stopped here: it ends when the node sleeps.
\* The datagrams offered are those of full size, and none.
SessionInbound == {p \in Inbound : ~p.present \/ Len(p.data) = UDP_PACKET_SIZE}

loop_later ==
    /\ pc = "loop"
    /\ UNCHANGED treeVars
    /\ \E p \in SessionInbound, dt \in ClockSteps \ {0} : iteration(p, dt)

loop_again ==
    /\ pc = "loop"
    /\ UNCHANGED treeVars
    /\ \E p \in SessionInbound : iteration(p, 0)

NextSession ==
    \/ setup_discovery
    \/ WiFi_connects
    \/ createLink_wait
    \/ setup_finish
    \/ loop_later
    \/ loop_again

\* The core calls loop() again and again and millis() grows with time: an
\* iteration that reads a later time is always possible while the node is
\* awake, and is taken.  Which datagram it finds is not constrained.
SpecSession == Init /\ [][NextSession]_vars /\ WF_vars(loop_later)

\* Link Formation of two Relays side by side: each is handed an uplink address
\* (lines 346-350) and derives its identity from it (lines 351-362, 164-182).
pair_connects(k) ==
    /\ pair[k].status = "idle"
    /\ \E a \in LocalPool :
         pair' = [pair EXCEPT ![k] = [@ EXCEPT !.status = "connected", !.localIP = a]]
    /\ UNCHANGED <<leaf, root, net, tally>>
    /\ UNCHANGED relayVars

pair_createLink(k) ==
    /\ pair[k].status = "connected"
    /\ LET own == deriveOwnIP(pair[k].localIP) IN
         pair' = [pair EXCEPT ![k] = [@ EXCEPT !.status = "linked",
                                                !.own_IP = own,
                                                !.sub_network_IP = maskIP(own),
                                                !.sub_broadcast_IP = broadcastOf(own)]]
    /\ UNCHANGED <<leaf, root, net, tally>>
    /\ UNCHANGED relayVars

NextPair ==
    \/ \E k \in 1..2 : pair_connects(k)
    \/ \E k \in 1..2 : pair_createLink(k)

SpecPair == Init /\ [][NextPair]_vars

\* setup() alone.  Once the radio reports WL_CONNECTED the while loop of
\* createLink() ends and the processor runs the rest of setup(): that step is
\* taken if it stays possible.  Nothing makes the radio connect.
NextSetup ==
    \/ setup_discovery
    \/ WiFi_connects
    \/ createLink_wait
    \/ setup_finish

SpecSetup == Init /\ [][NextSetup]_vars /\ WF_vars(setup_finish)

----------------------------------------------------------------------------
(* The tree Root - Relay - Leaf, joined by datagrams in flight *)

Dgram(from, port, to, toPort, data) ==
    [from |-> from, port |-> port, to |-> to, toPort |-> toPort, data |-> data]

\* What UDP.parsePacket() / remoteIP() / remotePort() / read() present of d.
AsPacket(d) == [present |-> TRUE, from |-> d.from, port |-> d.port, data |-> d.data]

\* What an iteration of a node that listens on UDP_PORT at the addresses addrs
\* can find: nothing, or one of the datagrams in flight to it.
Arrivals(addrs) ==
    {[pkt |-> NoPacket, bag |-> EmptyBag]} \cup
    {[pkt |-> AsPacket(d), bag |-> SetToBag({d})] :
        d \in {x \in BagToSet(net) : x.to \in addrs /\ x.toPort = UDP_PORT}}

\* The Relay's access-point interface routes to its own subnet, the station
\* interface to everything else.
relaySource(to) == IF netOf(to) = netOf(WiFi_softAPIP) THEN WiFi_softAPIP ELSE WiFi_localIP
leafSource(to) == leaf.localIP
rootSource(to) == root.softAPIP

\* Source address of a datagram that node sends to an address.
SourceOf(node, to) ==
    CASE node = "relay" -> relaySource(to)
      [] node = "leaf"  -> leafSource(to)
      [] OTHER          -> rootSource(to)

\* The datagrams the send events of an iteration log of node put in flight;
\* the socket is bound to UDP_PORT.
Datagrams(log, node) ==
    LET sends == SelectSeq(log, LAMBDA e : e.ev = "send")
    IN  [i \in 1..Len(sends) |->
            Dgram(SourceOf(node, sends[i].to), UDP_PORT, sends[i].to, sends[i].port,
                  sends[i].bytes)]

RECURSIVE Posted(_)
Posted(dgrams) ==
    IF dgrams = <<>> THEN EmptyBag
    ELSE SetToBag({Head(dgrams)}) (+) Posted(Tail(dgrams))

\* The Leaf's report and the Root's reply to it, as bytes on the wire.
IsLeafReport(data) ==
    /\ Len(data) = UDP_PACKET_SIZE /\ data[UDP_PACKET_SIZE] = LEAF_MARK
    /\ SubSeq(data, IP_len + 1, 2 * IP_len) = leaf.localIP
IsReplyToLeaf(data) ==
    /\ Len(data) = UDP_PACKET_SIZE /\ data[UDP_PACKET_SIZE] = ROOT_MARK
    /\ SubSeq(data, 1, IP_len) = leaf.localIP

\* What the DHCP server of the Relay's access point hands to the Leaf: the
\* first lease of an access point set up with softAPConfig() is host 100.
LeafUplinks ==
    {[local |-> SetOctet(WiFi_softAPIP, IP_len - 1, h), gateway |-> WiFi_softAPIP] :
        h \in {100}}

TreeClockSteps == {0, 9000}     \* time between two iterations of the Relay, ms
MaxTreeClock == MaxTreeTicks * 9000

\* The Relay after setup() joined the Root's network with uplink u.
LinkedToRoot(u) ==
    /\ pc = "loop"
    /\ scan = <<>>
    /\ connectToBS = TRUE
    /\ moteSearched = FALSE
    /\ network_idx = -1
    /\ createLinkCalls = 1
    /\ ap_ssid = MOTE2BS_SSID
    /\ WiFi_ssid = BS_SSID
    /\ WiFi_disconnects = 1
    /\ WiFi_status = "connected"
    /\ WiFi_localIP = u.local
    /\ WiFi_gatewayIP = u.gateway
    /\ WiFi_softAPIP = deriveOwnIP(u.local)
    /\ retries = 0
    /\ sup_gateway_IP = u.gateway
    /\ own_IP = deriveOwnIP(u.local)
    /\ sub_gateway_IP = deriveOwnIP(u.local)
    /\ sub_broadcast_IP = broadcastOf(deriveOwnIP(u.local))
    /\ sub_network_IP = maskIP(deriveOwnIP(u.local))
    /\ sup_network_IP = maskIP(u.local)
    /\ udpListening = TRUE
    /\ rxBuffer = ZeroBuf
    /\ rxSize = 0
    /\ rxMsg = parseMsg(ZeroBuf)
    /\ txBuffer = ZeroBuf
    /\ remote_PORT = 0
    /\ sendernet_IP = ZeroIP
    /\ dstnet_IP = ZeroIP
    /\ previousMillis = 0
    /\ msg_sent_cnt = 0
    /\ millis = 0
    /\ udpIn = NoPacket
    /\ branch = "none"
    /\ out = <<>>

InitTree ==
    /\ \E u \in Uplinks(BS_SSID) : LinkedToRoot(u)
    /\ leaf = LeafBoot
    /\ root = RootBoot
    /\ net = EmptyBag
    /\ tally = [up |-> 0, replies |-> 0, down |-> 0]
    /\ pair = PairBoot

\* The Leaf's connection wait, one pass.
leaf_retry ==
    /\ leaf.pc = "connecting"
    /\ leaf.status # "connected"
    /\ leaf' = leafRetry(leaf)
    /\ UNCHANGED <<root, net, tally>>
    /\ UNCHANGED relayVars
    /\ UNCHANGED pair

\* The Leaf's radio joins the Relay's access point, which is up while the
\* Relay is awake.
leaf_WiFi_connects ==
    /\ leaf.pc = "connecting"
    /\ leaf.status # "connected"
    /\ pc = "loop"
    /\ \E u \in LeafUplinks :
         leaf' = [leaf EXCEPT !.status = "connected", !.localIP = u.local,
                              !.WiFi_gatewayIP = u.gateway]
    /\ UNCHANGED <<root, net, tally>>
    /\ UNCHANGED relayVars
    /\ UNCHANGED pair

leaf_setup_finish ==
    /\ leaf.pc = "connecting"
    /\ leaf.status = "connected"
    /\ leaf' = leafSetupFinish(leaf)
    /\ UNCHANGED <<root, net, tally>>
    /\ UNCHANGED relayVars
    /\ UNCHANGED pair

leaf_loop ==
    /\ leaf.pc = "loop"
    /\ \E a \in Arrivals({leaf.localIP, broadcastOf(leaf.localIP)}), dt \in LeafClockSteps :
         /\ leaf.millis + dt <= MaxLeafClock
         /\ leaf' = leafIteration(leaf, a.pkt, dt)
         /\ net' = (net (-) a.bag) (+) Posted(Datagrams(leaf'.out, "leaf"))
         /\ BagCardinality(net') <= MaxInFlight
    /\ UNCHANGED <<root, tally>>
    /\ UNCHANGED relayVars
    /\ UNCHANGED pair

root_loop ==
    /\ \E a \in Arrivals({root.softAPIP}) :
         /\ a.pkt.present
         /\ root' = rootIteration(root, a.pkt)
         /\ \E sent \in {Datagrams(root'.out, "root")} :
              /\ net' = (net (-) a.bag) (+) Posted(sent)
              /\ tally' = [tally EXCEPT !.replies =
                             @ + Len(SelectSeq(sent, LAMBDA d : IsReplyToLeaf(d.data)))]
         /\ BagCardinality(net') <= MaxInFlight
    /\ UNCHANGED leaf
    /\ UNCHANGED relayVars
    /\ UNCHANGED pair

\* One iteration of the Relay's loop() in the tree, dt ms after the previous
\* one: what it finds is taken out of the network, what it sends is put in.
relay_iterates(dt) ==
    /\ \E a \in Arrivals({WiFi_localIP, WiFi_softAPIP}) :
         /\ iteration(a.pkt, dt)
         /\ \E sent \in {Datagrams(out', "relay")} :
              /\ net' = (net (-) a.bag) (+) Posted(sent)
              /\ tally' = [tally EXCEPT
                    !.up = @ + Len(SelectSeq(sent, LAMBDA d :
                                   d.to = sup_gateway_IP /\ IsLeafReport(d.data))),
                    !.down = @ + Len(SelectSeq(sent, LAMBDA d :
                                   d.to = leaf.localIP /\ IsReplyToLeaf(d.data)))]
         /\ BagCardinality(net') <= MaxInFlight
    /\ UNCHANGED <<leaf, root, pair>>

\* loop() of the Relay with the datagrams of the tree.
tree_relay ==
    \E dt \in TreeClockSteps :
        /\ millis + dt <= MaxTreeClock
        /\ relay_iterates(dt)

NextTree ==
    \/ leaf_retry
    \/ leaf_WiFi_connects
    \/ leaf_setup_finish
    \/ leaf_loop
    \/ root_loop
    \/ tree_relay

SpecTree == InitTree /\ [][NextTree]_vars

\* A station of the Root's network that is no node of the tree, and the
\* datagram it sends to the Relay: its embedded destination lies in a network
\* the Relay does not know.
STRANGER_IP == <<192, 168, 4, 9>>
Strays ==
    { Dgram(STRANGER_IP, UDP_PORT, WiFi_localIP, UDP_PORT,
            Datagram(<<172, 16, 0, 4>>, STRANGER_IP, UDP_PACKET_SIZE)) }

stranger_sends ==
    /\ \E d \in Strays : net' = net (+) SetToBag({d})
    /\ BagCardinality(net') <= MaxInFlight
    /\ UNCHANGED <<leaf, root, tally, pair>>
    /\ UNCHANGED relayVars

\* loop() of the Relay while its telemetry period has not elapsed: it receives
\* and forwards only.
relay_forwards == relay_iterates(0)

\* The tree with foreign traffic arriving at the Relay from upstream.
NextTreeOpen ==
    \/ leaf_retry
    \/ leaf_WiFi_connects
    \/ leaf_setup_finish
    \/ leaf_loop
    \/ root_loop
    \/ relay_forwards
    \/ stranger_sends

SpecTreeOpen == InitTree /\ [][NextTreeOpen]_vars

----------------------------------------------------------------------------
(* Vocabulary of the properties *)

Prefix(ip) == <<ip[1], ip[2], ip[3]>>        \* subnet prefix: octets [0..2]

\* Setup has completed: the node has its identity and listens on its port.
Linked == udpListening

\* The last loop iteration processed an inbound datagram.
Received == Linked /\ udpIn.present

\* The destination the codec decoded from the datagram of the last iteration.
EmbeddedDst == rxMsg.dstIP

FromChild == Prefix(udpIn.from) = Prefix(sub_network_IP)
DstInSubnet == Prefix(EmbeddedDst) = Prefix(sub_network_IP)

\* What the receive part of the last iteration sent and delivered.
RxSends == SelectSeq(out, LAMBDA e : e.by = "rx" /\ e.ev = "send")
RxDelivers == SelectSeq(out, LAMBDA e : e.by = "rx" /\ e.ev = "actionUponRx")
TxSends == SelectSeq(out, LAMBDA e : e.by = "tx")
Naps == SelectSeq(out, LAMBDA e : e.ev = "deepSleep")

\* The bytes UDP.read() hands to the loop: the datagram, cut at the buffer size.
ReadBytes == SubSeq(udpIn.data, 1, readSize(udpIn.data))

\* The case the forwarding rules name for the packet of the last iteration,
\* with `self` the address rule (b) compares the embedded destination with.
RuleCase(self) ==
    IF FromChild THEN "a"
    ELSE IF EmbeddedDst = self THEN "b"
    ELSE IF DstInSubnet THEN "c"
    ELSE "d"

\* The observable effect of each case.
EffectOf(c) ==
    CASE c = "a" -> Len(RxSends) = 1 /\ RxDelivers = <<>> /\ RxSends[1].to = sup_gateway_IP
      [] c = "b" -> RxSends = <<>> /\ Len(RxDelivers) = 1
      [] c = "c" -> Len(RxSends) = 1 /\ RxDelivers = <<>> /\ RxSends[1].to = EmbeddedDst
      [] c = "d" -> Len(RxSends) = 1 /\ RxDelivers = <<>> /\ RxSends[1].to = sub_broadcast_IP
      [] OTHER   -> FALSE

----------------------------------------------------------------------------
(* C1 *)

\* C1 as stated: every processed packet takes exactly the case the rules name
\* in the order a > b > c > d, with rule (b) comparing the embedded destination
\* with ownAddress, the address derived in link formation (own_IP).
C1_AsStated ==
    Received => branch = RuleCase(own_IP) /\ EffectOf(RuleCase(own_IP))

\* C1, amended: every processed packet takes exactly one of the cases a, b, c,
\* d, namely the one the rules name in the order a > b > c > d, where rule (b)
\* compares the embedded destination with the address the node holds on its
\* uplink (WiFi.localIP()); the case shows in what the node does; a datagram of
\* at least four bytes is classified by its own first four bytes; when no
\* packet is processed no case is taken.
C1_ClassificationTotalExclusive ==
    /\ Received =>
         /\ branch \in {"a", "b", "c", "d"}
         /\ branch = RuleCase(WiFi_localIP)
         /\ EffectOf(branch)
         /\ Len(udpIn.data) >= IP_len => EmbeddedDst = SubSeq(udpIn.data, 1, IP_len)
    /\ ~Received => branch = "none" /\ RxSends = <<>> /\ RxDelivers = <<>>

\* A child sent a packet whose embedded destination is the node itself, and it
\* went upstream (case a), not to local delivery.
C1_Witness ==
    /\ Received /\ FromChild /\ EmbeddedDst = WiFi_localIP
    /\ branch = "a" /\ RxDelivers = <<>>

----------------------------------------------------------------------------
(* C2 *)

\* C2 as stated: a packet from outside the downstream subnet whose embedded
\* destination is ownAddress (own_IP, derived in link formation) is delivered
\* locally and nothing is sent for it.
C2_AsStated ==
    (Received /\ ~FromChild /\ EmbeddedDst = own_IP)
        => (RxSends = <<>> /\ Len(RxDelivers) = 1)

\* C2, amended: a packet from outside the downstream subnet whose embedded
\* destination is the node's uplink address (WiFi.localIP()) is delivered
\* locally (actionUponRx) and nothing is sent for it.
C2_LocalDelivery ==
    (Received /\ ~FromChild /\ EmbeddedDst = WiFi_localIP)
        => (branch = "b" /\ RxSends = <<>> /\ Len(RxDelivers) = 1)

C2_Witness ==
    /\ Received /\ ~FromChild /\ EmbeddedDst = WiFi_localIP
    /\ Len(udpIn.data) >= IP_len
    /\ RxDelivers = <<Deliver>>

----------------------------------------------------------------------------
(* C3 *)

\* C3 as stated: a packet from a child produces exactly one outbound packet,
\* to the gateway recorded in link formation, on the sender's port, whose
\* bytes are the bytes of the datagram, same length and same content.
C3_AsStated ==
    (Received /\ FromChild) =>
        /\ Len(RxSends) = 1
        /\ RxSends[1].to = WiFi_gatewayIP
        /\ RxSends[1].port = udpIn.port
        /\ RxSends[1].bytes = udpIn.data

\* C3, amended: a packet from a child produces exactly one outbound packet,
\* to the gateway recorded in link formation, on the sender's port, whose
\* bytes are the datagram's first UDP_PACKET_SIZE bytes: the whole datagram
\* when it is at most UDP_PACKET_SIZE bytes long; whatever the embedded fields.
C3_ForwardUpstream ==
    (Received /\ FromChild) =>
        /\ Len(RxSends) = 1 /\ RxDelivers = <<>>
        /\ RxSends[1].to = WiFi_gatewayIP
        /\ RxSends[1].to = sup_gateway_IP
        /\ RxSends[1].port = udpIn.port
        /\ RxSends[1].bytes = ReadBytes
        /\ Len(udpIn.data) <= UDP_PACKET_SIZE => RxSends[1].bytes = udpIn.data

C3_Witness ==
    /\ Received /\ FromChild
    /\ Len(udpIn.data) = UDP_PACKET_SIZE
    /\ ~DstInSubnet /\ EmbeddedDst # WiFi_localIP
    /\ RxSends = <<Send("rx", WiFi_gatewayIP, udpIn.port, udpIn.data)>>

----------------------------------------------------------------------------
(* C4 *)

\* C4 as stated: a packet that is neither from a child nor for the node (under
\* either reading of the node's address), with an embedded destination in the
\* downstream subnet, produces exactly one outbound packet, to that destination
\* on the sender's port, with the bytes of the datagram unchanged.
C4_AsStated ==
    (Received /\ ~FromChild /\ EmbeddedDst \notin {WiFi_localIP, own_IP} /\ DstInSubnet) =>
        /\ Len(RxSends) = 1
        /\ RxSends[1].to = EmbeddedDst
        /\ RxSends[1].port = udpIn.port
        /\ RxSends[1].bytes = udpIn.data

\* C4, amended: a packet that is not from a child, whose embedded destination
\* is not the node's uplink address and lies in the downstream subnet (the
\* node's own access-point address included), produces exactly one outbound packet, to the
\* embedded destination on the sender's port, whose bytes are the datagram's
\* first UDP_PACKET_SIZE bytes: the whole datagram when it is at most
\* UDP_PACKET_SIZE bytes long.
C4_ForwardDownstream ==
    (Received /\ ~FromChild /\ EmbeddedDst # WiFi_localIP /\ DstInSubnet) =>
        /\ Len(RxSends) = 1 /\ RxDelivers = <<>>
        /\ RxSends[1].to = EmbeddedDst
        /\ RxSends[1].port = udpIn.port
        /\ RxSends[1].bytes = ReadBytes
        /\ Len(udpIn.data) <= UDP_PACKET_SIZE => RxSends[1].bytes = udpIn.data

C4_Witness ==
    /\ Received /\ ~FromChild /\ DstInSubnet
    /\ Len(udpIn.data) = UDP_PACKET_SIZE
    /\ EmbeddedDst # own_IP
    /\ RxSends = <<Send("rx", SubSeq(udpIn.data, 1, IP_len), udpIn.port, udpIn.data)>>

----------------------------------------------------------------------------
(* C5 *)

\* C5 as stated: a packet matching none of (a), (b), (c) (under either reading
\* of the node's address in (b)) produces exactly one outbound packet, to the
\* downstream prefix followed by 255, on the sender's port, with the bytes of
\* the datagram unchanged; it is never dropped.
C5_AsStated ==
    (Received /\ ~FromChild /\ EmbeddedDst \notin {WiFi_localIP, own_IP} /\ ~DstInSubnet) =>
        /\ Len(RxSends) = 1
        /\ RxSends[1].to = Prefix(sub_network_IP) \o <<255>>
        /\ RxSends[1].port = udpIn.port
        /\ RxSends[1].bytes = udpIn.data

\* C5, amended: a packet that is not from a child, whose embedded destination
\* is neither the node's uplink address nor in the downstream subnet,
\* produces exactly one outbound packet, to the
\* downstream prefix followed by 255, on the sender's port, whose bytes are
\* the datagram's first UDP_PACKET_SIZE bytes: the whole datagram when it is
\* at most UDP_PACKET_SIZE bytes long; it is never dropped and nothing else
\* (no local delivery, no sleep request on its account) happens for it.
C5_BroadcastFallback ==
    (Received /\ ~FromChild /\ EmbeddedDst # WiFi_localIP /\ ~DstInSubnet) =>
        /\ Len(RxSends) = 1 /\ RxDelivers = <<>>
        /\ RxSends[1].to = Prefix(sub_network_IP) \o <<255>>
        /\ RxSends[1].to = Prefix(own_IP) \o <<255>>
        /\ RxSends[1].port = udpIn.port
        /\ RxSends[1].bytes = ReadBytes
        /\ Len(udpIn.data) <= UDP_PACKET_SIZE => RxSends[1].bytes = udpIn.data

C5_Witness ==
    /\ Received /\ ~FromChild /\ ~DstInSubnet /\ EmbeddedDst = <<172, 16, 0, 4>>
    /\ Len(udpIn.data) = UDP_PACKET_SIZE
    /\ RxSends = <<Send("rx", Prefix(own_IP) \o <<255>>, udpIn.port, udpIn.data)>>

----------------------------------------------------------------------------
(* C6 *)

HasSSID(s, name) == \E i \in 1..Len(s) : s[i].ssid = name
Motes(s) == {i \in 1..Len(s) : s[i].ssid = MOTE2BS_SSID}

\* C6: whenever the scan holds a network named BS_ESP8266, createLink is called
\* (once) with connectToBS = true and connects to the base station's SSID,
\* whatever MOTE2BS networks the scan holds, and the MOTE2BS search is not run.
C6_RootPriority ==
    HasSSID(scan, BS_SSID) =>
        /\ pc = "connecting"
        /\ connectToBS /\ createLinkCalls = 1 /\ WiFi_disconnects = 1
        /\ WiFi_ssid = BS_SSID
        /\ ~moteSearched

\* The base station is the weakest and the last scanned entry, behind two
\* stronger MOTE2BS networks, and is chosen.
C6_Witness ==
    /\ pc = "connecting" /\ connectToBS /\ WiFi_ssid = BS_SSID
    /\ Len(scan) >= 3
    /\ scan[1].ssid = BS_SSID /\ scan[1].rssi = -128
    /\ \A i \in 2..Len(scan) : scan[i].ssid = MOTE2BS_SSID /\ scan[i].rssi = -40

----------------------------------------------------------------------------
(* C7 *)

\* C7: whenever the scan holds no BS_ESP8266 network and at least one
\* MOTE2BS_ESP8266 network, createLink is called (once) with connectToBS =
\* false and the index of a MOTE2BS entry of maximum signal strength among the
\* MOTE2BS entries; among entries of that strength it is the highest index.
C7_StrongestRelay ==
    (~HasSSID(scan, BS_SSID) /\ Motes(scan) # {}) =>
        /\ pc = "connecting"
        /\ ~connectToBS /\ moteSearched /\ createLinkCalls = 1
        /\ WiFi_ssid = MOTE2BS_SSID
        /\ network_idx + 1 \in Motes(scan)
        /\ \A j \in Motes(scan) :
             /\ scan[j].rssi <= scan[network_idx + 1].rssi
             /\ scan[j].rssi = scan[network_idx + 1].rssi => j <= network_idx + 1

\* Two MOTE2BS networks tie for the maximum; the one with the higher index won.
C7_Witness ==
    /\ pc = "connecting" /\ ~connectToBS
    /\ \E j \in Motes(scan) :
         /\ j < network_idx + 1
         /\ scan[j].rssi = scan[network_idx + 1].rssi
    /\ \E k \in Motes(scan) : scan[k].rssi < scan[network_idx + 1].rssi

----------------------------------------------------------------------------
(* C8 *)

\* C8: when the scan holds neither a BS_ESP8266 nor a MOTE2BS_ESP8266 network,
\* setup() requests deep sleep at once: the session is sleeping, and createLink,
\* WiFi.disconnect and WiFi.begin have not been called, nor the port opened.
C8_NoUplinkSleeps ==
    [][ (pc = "setup" /\ ~HasSSID(scan', BS_SSID) /\ Motes(scan') = {}) =>
            /\ pc' = "sleeping"
            /\ out' = <<Sleep>>
            /\ createLinkCalls' = 0 /\ WiFi_disconnects' = 0 /\ WiFi_ssid' = ""
            /\ WiFi_status' = "idle" /\ ~udpListening' ]_vars

C8_Witness ==
    /\ pc = "sleeping" /\ out = <<Sleep>>
    /\ Len(scan) >= 2 /\ ~HasSSID(scan, BS_SSID) /\ Motes(scan) = {}
    /\ createLinkCalls = 0 /\ WiFi_disconnects = 0 /\ WiFi_ssid = ""

----------------------------------------------------------------------------
(* C9 *)

\* C9: once setup has completed with uplink address (l0,l1,l2,l3) and gateway
\* g, in every state from then on sup_gateway_IP = g, own_IP = (l0, l1,
\* (l2 + l3) mod 256, 1), and the downstream network address has the first
\* three octets of own_IP (and host octet 0), also when l2 + l3 exceeds 255.
C9_IdentityDerivation ==
    Linked =>
        /\ sup_gateway_IP = WiFi_gatewayIP
        /\ own_IP = <<WiFi_localIP[1], WiFi_localIP[2],
                      (WiFi_localIP[3] + WiFi_localIP[4]) % 256, 1>>
        /\ sub_gateway_IP = own_IP
        /\ Prefix(sub_network_IP) = Prefix(own_IP)
        /\ sub_network_IP[4] = 0

\* The sum of the third and fourth octet overflowed, and the session ran on.
C9_Witness ==
    /\ Linked /\ WiFi_localIP[3] + WiFi_localIP[4] > 255
    /\ own_IP[3] = WiFi_localIP[3] + WiFi_localIP[4] - 256
    /\ msg_sent_cnt > 0

----------------------------------------------------------------------------
(* C10 *)

\* The telemetry packet of a firing, with `source` as its embedded source.
TelemetryWellFormed(e, source) ==
    /\ e.ev = "send" /\ e.to = sup_gateway_IP /\ e.port = 4210
    /\ Len(e.bytes) = 9
    /\ SubSeq(e.bytes, 1, 4) = sup_gateway_IP
    /\ SubSeq(e.bytes, 5, 8) = source
    /\ e.bytes[9] = 65
    /\ parseMsg(e.bytes) = [dstIP |-> sup_gateway_IP, srcIP |-> source, payload |-> <<65>>]

\* C10 as stated: every firing adds exactly 1 to the send counter and sends
\* exactly one 9-byte packet to the gateway on port 4210, with the gateway as
\* embedded destination, ownAddress (own_IP, derived in link formation) as
\* embedded source and the marker 65, and parseMsg decodes those fields.
C10_AsStated ==
    [][ pc = "loop" =>
            /\ Len(TxSends') <= 1
            /\ msg_sent_cnt' = msg_sent_cnt + Len(TxSends')
            /\ \A i \in 1..Len(TxSends') : TelemetryWellFormed(TxSends'[i], own_IP) ]_vars

\* C10, amended: every firing adds exactly 1 to the send counter and sends
\* exactly one 9-byte packet to the gateway on port 4210, with the gateway as
\* embedded destination, the node's uplink address (WiFi.localIP()) as embedded
\* source and the marker 65, and parseMsg decodes those fields; an iteration
\* that does not fire leaves the counter unchanged.
C10_TelemetryPacket ==
    [][ pc = "loop" =>
            /\ Len(TxSends') <= 1
            /\ msg_sent_cnt' = msg_sent_cnt + Len(TxSends')
            /\ \A i \in 1..Len(TxSends') :
                 TelemetryWellFormed(TxSends'[i], WiFi_localIP) ]_vars

\* A firing happened: the counter is positive and the packet was sent.
C10_Witness ==
    /\ pc = "loop" /\ msg_sent_cnt >= 2
    /\ Len(TxSends) = 1
    /\ TxSends[1].bytes = sup_gateway_IP \o WiFi_localIP \o <<65>>
    /\ WiFi_localIP # own_IP


(***************************************************************************)
(* C11  Sleep threshold                                                    *)
(***************************************************************************)
\* Positions in the log of one iteration.
IsTelemetry(e) == e.by = "tx" /\ e.ev = "send"
IsNap(e) == e.ev = "deepSleep"

\* C11: in a session that reached the loop the node is asleep exactly when the
\* counter is MSG_SENT_MAX (5), never above it; the step that puts it to sleep
\* is the iteration of the 5th firing, whose log ends with that telemetry
\* packet followed by the sleep request; and in every iteration the counter
\* grows by the number of telemetry packets sent, whatever was forwarded.
C11_SleepThreshold ==
    /\ [](Linked => /\ msg_sent_cnt <= 5
                    /\ (pc = "sleeping") <=> (msg_sent_cnt = 5))
    /\ [][pc = "loop" =>
            /\ msg_sent_cnt' = msg_sent_cnt + Len(TxSends')
            /\ pc' = "sleeping" =>
                 /\ msg_sent_cnt = 4 /\ msg_sent_cnt' = 5
                 /\ Len(TxSends') = 1 /\ Len(out') >= 2
                 /\ IsTelemetry(out'[Len(out') - 1])
                 /\ IsNap(out'[Len(out')])]_vars

\* The 5th firing happened in an iteration that also forwarded a packet, and
\* the node sleeps.
C11_Witness ==
    /\ Linked /\ pc = "sleeping" /\ msg_sent_cnt = 5
    /\ Len(RxSends) = 1 /\ Len(TxSends) = 1 /\ Len(Naps) = 1


(***************************************************************************)
(* C12  Determinism of classification                                      *)
(***************************************************************************)
\* What the receive part does with datagram p when rxBuffer holds buf before
\* the read: the case taken and the packets sent.
ClassifiedOn(buf, p) ==
    LET b   == UDPread(buf, p.data)
        msg == parseMsg(b)
        br  == classify(netOf(p.from), msg.dstIP, netOf(msg.dstIP), sub_network_IP,
                        WiFi_localIP, own_IP)
    IN  [branch |-> br,
         out |-> forward(br, msg.dstIP, p.port, b, readSize(p.data), sup_gateway_IP,
                         sub_broadcast_IP)]

\* C12 as stated: the case and the outbound packet of every inbound packet,
\* short ones included, are those the same packet gets from the same node
\* identity when nothing was received before it (rxBuffer as at start-up), so
\* they do not depend on the packets received in between.
C12_AsStated ==
    Received =>
        /\ branch = ClassifiedOn(ZeroBuf, udpIn).branch
        /\ SelectSeq(out, LAMBDA e : e.by = "rx") = ClassifiedOn(ZeroBuf, udpIn).out


(***************************************************************************)
(* C13  Two-way bridging through the Relay                                 *)
(***************************************************************************)
\* Datagrams in flight to addr that are reports of the Leaf / replies to it.
ReportsInFlightTo(addr) ==
    BagCardinality([d \in {x \in BagToSet(net) : x.to = addr /\ IsLeafReport(x.data)}
                      |-> net[d]])
RepliesInFlightTo(addr) ==
    BagCardinality([d \in {x \in BagToSet(net) : x.to = addr /\ IsReplyToLeaf(x.data)}
                      |-> net[d]])

\* The last iteration of the Relay received the Leaf's report / the Root's
\* reply to the Leaf; the last iteration of the Root received the report.
RelayGotReport ==
    udpIn.present /\ udpIn.from = leaf.localIP /\ IsLeafReport(udpIn.data)
RelayGotReply ==
    udpIn.present /\ udpIn.from = root.softAPIP /\ IsReplyToLeaf(udpIn.data)
RootGotReport == root.udpIn.present /\ IsLeafReport(root.udpIn.data)

StepRank(e) == IF e.by = "rx" THEN 1 ELSE IF e.by = "tx" THEN 2 ELSE 3

\* C14: the log of every iteration holds at most one entry of the receive part,
\* then at most one telemetry packet, then at most one sleep request, in that
\* order; the receive part has an entry exactly when a datagram was found, also
\* in the iteration that ends with the sleep request; and once the node sleeps
\* nothing more happens.
C14_LoopOrdering ==
    /\ [](Linked =>
            /\ \A i, j \in 1..Len(out) : i < j => StepRank(out[i]) < StepRank(out[j])
            /\ Len(SelectSeq(out, LAMBDA e : e.by = "rx")) = (IF udpIn.present THEN 1 ELSE 0)
            /\ (pc = "sleeping") <=> (out # <<>> /\ IsNap(out[Len(out)])))
    /\ [][pc # "sleeping"]_vars

\* One iteration forwarded a datagram, then sent telemetry, then asked for sleep.
C14_Witness ==
    /\ Linked /\ Len(out) = 3
    /\ out[1].by = "rx" /\ out[1].ev = "send" /\ out[1].bytes = udpIn.data
    /\ IsTelemetry(out[2])
    /\ IsNap(out[3])


(***************************************************************************)
(* C15  The Relay's connection wait is unbounded                           *)
(***************************************************************************)
Waiting == pc = "connecting" /\ WiFi_status # "connected"

\* C15: while the uplink is not connected every step of the Relay leaves it in
\* the connection wait, with no sleep request, no access point and no UDP port;
\* it leaves the wait only when the status is connected, and only for the loop
\* with Link Formation complete; and if the uplink connects, Link Formation
\* completes.
C15_UnboundedRetry ==
    /\ [](pc = "connecting" =>
            /\ ~udpListening /\ WiFi_softAPIP = ZeroIP /\ own_IP = ZeroIP
            /\ out = <<>>)
    /\ [][Waiting => pc' = "connecting"]_vars
    /\ [][pc = "connecting" /\ pc' # "connecting" =>
            /\ WiFi_status = "connected"
            /\ pc' = "loop" /\ udpListening'
            /\ own_IP' = deriveOwnIP(WiFi_localIP)]_vars
    /\ (pc = "connecting" /\ WiFi_status = "connected") ~> (pc = "loop" /\ udpListening)

\* The uplink connected after as many delays as the model counts.
C15_Witness ==
    /\ pc = "connecting" /\ WiFi_status = "connected" /\ retries = MaxRetries


(***************************************************************************)
(* C16  The Leaf's connection wait is bounded                              *)
(***************************************************************************)
\* C16 as stated: the Leaf waits at most WIFI_CONN_ATTEMPTS (20) times for its
\* connection; when it has asked for deep sleep from the wait it was not
\* connected; and its UDP port is open, or its loop running, only after the
\* connection succeeded.
C16_AsStated ==
    /\ leaf.waits <= 20
    /\ (leaf.pc = "sleeping" /\ ~leaf.udpListening) => leaf.status # "connected"
    /\ (leaf.udpListening \/ leaf.pc = "loop") => leaf.status = "connected"


(***************************************************************************)
(* C17  Identity is written once, forwarding changes no other state        *)
(***************************************************************************)
\* C17: createLink() is called at most once, and exactly once in a session that
\* reached the loop; no step of a node in the loop changes the upstream
\* neighbour, the own address, the downstream subnet, the broadcast address or
\* the addresses of the uplink; and an iteration in which telemetry does not
\* fire, whatever it received and forwarded, leaves the send counter and the
\* telemetry timestamp as they were.
C17_IdentityWriteOnce ==
    /\ [](/\ createLinkCalls <= 1
          /\ Linked => createLinkCalls = 1 /\ WiFi_disconnects = 1)
    /\ [][Linked =>
            /\ UNCHANGED <<sup_gateway_IP, own_IP, sub_gateway_IP, sub_broadcast_IP,
                           sub_network_IP, sup_network_IP, WiFi_softAPIP>>
            /\ UNCHANGED <<WiFi_localIP, WiFi_gatewayIP, createLinkCalls, ap_ssid>>
            /\ SelectSeq(out', LAMBDA e : e.by = "tx") = <<>> =>
                 UNCHANGED <<msg_sent_cnt, previousMillis, txBuffer>>]_vars

\* A datagram was forwarded downstream in an iteration without telemetry, in a
\* session that has already sent telemetry twice.
C17_Witness ==
    /\ Received /\ branch = "c" /\ Len(RxSends) = 1 /\ TxSends = <<>>
    /\ msg_sent_cnt = 2 /\ millis > previousMillis


(***************************************************************************)
(* C18  The derivation of the own address is collision-prone               *)
(***************************************************************************)
\* The sum the derivation folds into the third octet.
FoldedOctet(ip) == (ip[3] + ip[4]) % 256

\* C18: each of two Relays derives its own address from its own uplink address
\* alone, whatever the other holds; two Relays with different uplink addresses
\* get the same own address exactly when the first two octets agree and the
\* sums of third and fourth octet agree modulo 256, and then their downstream
\* subnets and broadcast addresses are the same too; and a Relay that is
\* connected can always complete Link Formation, colliding or not.
C18_DerivationCollides ==
    /\ \A k \in 1..2 :
         /\ pair[k].status = "linked" => pair[k].own_IP = deriveOwnIP(pair[k].localIP)
         /\ pair[k].status = "connected" => ENABLED pair_createLink(k)
    /\ (pair[1].status = "linked" /\ pair[2].status = "linked"
          /\ pair[1].localIP # pair[2].localIP) =>
         /\ (pair[1].own_IP = pair[2].own_IP) <=>
               /\ pair[1].localIP[1] = pair[2].localIP[1]
               /\ pair[1].localIP[2] = pair[2].localIP[2]
               /\ FoldedOctet(pair[1].localIP) = FoldedOctet(pair[2].localIP)
         /\ (pair[1].own_IP = pair[2].own_IP) =>
               /\ pair[1].sub_network_IP = pair[2].sub_network_IP
               /\ pair[1].sub_broadcast_IP = pair[2].sub_broadcast_IP

\* Two Relays with the uplink addresses 192.168.4.2 and 192.168.5.1 are both
\* linked with the own address 192.168.6.1 and the subnet 192.168.6.0.
C18_Witness ==
    /\ pair[1].status = "linked" /\ pair[2].status = "linked"
    /\ pair[1].localIP = <<192, 168, 4, 2>> /\ pair[2].localIP = <<192, 168, 5, 1>>
    /\ pair[1].own_IP = <<192, 168, 6, 1>> /\ pair[2].own_IP = <<192, 168, 6, 1>>
    /\ pair[1].sub_network_IP = <<192, 168, 6, 0>>
    /\ pair[2].sub_network_IP = <<192, 168, 6, 0>>


EdgeOctets == {0, 1, 2, 127, 128, 254, 255}

\* C20: whatever the third octet of the uplink address, a host octet in 1..255
\* gives an own address with a different third octet; so in a session that
\* reached the loop with such an uplink address the prefix of the downstream
\* subnet differs from the prefix of the uplink network and from that of the
\* upstream neighbour, and a datagram that came from the upstream neighbour is
\* never forwarded as case (a).
C20_SubnetsDiffer ==
    /\ \A l2 \in EdgeOctets, l3 \in EdgeOctets \ {0} :
         deriveOwnIP(<<192, 168, l2, l3>>)[3] # l2
    /\ (Linked /\ WiFi_localIP[4] \in 1..255) =>
         /\ own_IP[3] # WiFi_localIP[3]
         /\ Prefix(sub_network_IP) # Prefix(WiFi_localIP)
         /\ Prefix(sub_network_IP) # Prefix(sup_network_IP)
         /\ Prefix(sub_network_IP) # Prefix(sup_gateway_IP)
         /\ (Received /\ udpIn.from = sup_gateway_IP) => branch # "a"

\* A datagram from the upstream neighbour reached a node whose derivation
\* wrapped around (192.168.255.3 gives 192.168.2.1) and went downstream.
C20_Witness ==
    /\ Received /\ udpIn.from = sup_gateway_IP
    /\ WiFi_localIP = <<192, 168, 255, 3>> /\ own_IP = <<192, 168, 2, 1>>
    /\ branch = "c"


(***************************************************************************)
(* C21  Directional forwarding: no bounce, no loop                         *)
(***************************************************************************)
InDownstream(ip) == Prefix(ip) = Prefix(sub_network_IP)
RelayAddrs == {WiFi_localIP, WiFi_softAPIP}
StrayBytes == {d.data : d \in Strays}

C22_SessionEndsAsleep ==
    /\ (Linked /\ pc = "loop") ~> (pc = "sleeping" /\ msg_sent_cnt = MSG_SENT_MAX)
    /\ [](Linked => /\ pc \in {"loop", "sleeping"}
                    /\ pc = "loop" => msg_sent_cnt < MSG_SENT_MAX
                    /\ pc = "sleeping" => msg_sent_cnt = MSG_SENT_MAX)
    /\ [][pc = "loop" =>
            /\ Len(TxSends') <= 1
            /\ msg_sent_cnt' = msg_sent_cnt + Len(TxSends')
            /\ pc' \in {"loop", "sleeping"}]_vars
    /\ [][pc # "sleeping"]_vars

\* The slowest session of the model: every firing came two and a half periods
\* after the one before, the last iteration also forwarded a datagram, and
\* the node sleeps.
C22_Witness ==
    /\ Linked /\ pc = "sleeping" /\ msg_sent_cnt = MSG_SENT_MAX
    /\ millis = MSG_SENT_MAX * 22500
    /\ udpIn.present /\ Len(RxSends) = 1 /\ Len(TxSends) = 1 /\ Len(Naps) = 1

====
